---- MODULE Spec2Model ----
(***************************************************************************)
(* Model of dolfinx_materials/jax_materials/elasticity.py:                 *)
(* LinearElasticIsotropic and PlaneStressLinearElasticIsotropic.           *)
(*                                                                         *)
(* Numbers are exact rationals <<n, d>> in lowest terms with d > 0.        *)
(* Python raises ZeroDivisionError when a number is divided by zero; the   *)
(* value ZDE stands for an expression whose evaluation raised it, and      *)
(* every arithmetic operator propagates it, so that a result holding ZDE   *)
(* means the method raised instead of returning.  The argument value None  *)
(* is the empty tuple.                                                     *)
(***************************************************************************)
EXTENDS Integers, Sequences, FiniteSets, TLC

\* ---------------------------------------------------------------- bounds
\* Largest Young modulus / bulk modulus / shear modulus handed to __init__.
MaxModulus == 1

\* ------------------------------------------------------- exact arithmetic
None == <<>>
ZDE == <<0, 0>>

Abs(n) == IF n < 0 THEN -n ELSE n

RECURSIVE Gcd(_, _)
Gcd(a, b) == IF b = 0 THEN a ELSE Gcd(b, a % b)

Norm(n, d) ==
    LET g == Gcd(Abs(n), Abs(d))
        s == IF d < 0 THEN -1 ELSE 1
    IN  <<s * (n \div g), s * (d \div g)>>

\* the number n / d (d # 0)
R(n, d) == Norm(n, d)
\* an int literal of the source
I(n) == <<n, 1>>

IsZDE(a) == a[2] = 0

Add(a, b) == IF IsZDE(a) \/ IsZDE(b) THEN ZDE
             ELSE Norm(a[1] * b[2] + b[1] * a[2], a[2] * b[2])
Sub(a, b) == IF IsZDE(a) \/ IsZDE(b) THEN ZDE
             ELSE Norm(a[1] * b[2] - b[1] * a[2], a[2] * b[2])
Mul(a, b) == IF IsZDE(a) \/ IsZDE(b) THEN ZDE
             ELSE Norm(a[1] * b[1], a[2] * b[2])
\* Python's true division: raises ZeroDivisionError on a zero divisor
Div(a, b) == IF IsZDE(a) \/ IsZDE(b) \/ b[1] = 0 THEN ZDE
             ELSE Norm(a[1] * b[2], a[2] * b[1])

\* ---------------------------------------------------------------- tensors
\* Size of a symmetric second-order tensor in Mandel notation.
Dim == 6
Idx == 1..Dim

\* spherical projector: 1/3 on the 3x3 block of the normal components
J == [i \in Idx |-> [j \in Idx |-> IF i <= 3 /\ j <= 3 THEN R(1, 3) ELSE I(0)]]
\* deviatoric projector: identity - J
K == [i \in Idx |-> [j \in Idx |-> Sub(IF i = j THEN I(1) ELSE I(0), J[i][j])]]

\* scalar * matrix, matrix + matrix, jnp.dot(matrix, vector)
Scale(a, M) == [i \in DOMAIN M |-> [j \in DOMAIN M[i] |-> Mul(a, M[i][j])]]
MatAdd(M, N) == [i \in DOMAIN M |-> [j \in DOMAIN M[i] |-> Add(M[i][j], N[i][j])]]

RECURSIVE SumTo(_, _, _)
SumTo(row, v, n) == IF n = 0 THEN I(0) ELSE Add(SumTo(row, v, n - 1), Mul(row[n], v[n]))
dot(M, v) == [i \in DOMAIN M |-> SumTo(M[i], v, Len(v))]

MatRaised(M) == \E i \in DOMAIN M : \E j \in DOMAIN M[i] : IsZDE(M[i][j])

Raised(x) == x = ZDE

\* ------------------------------------------------- LinearElasticIsotropic
Base == "LinearElasticIsotropic"
PlaneStress == "PlaneStressLinearElasticIsotropic"
Classes == {Base, PlaneStress}
Attrs == {"cls", "E", "nu", "kappa", "mu", "C", "S"}

\* LinearElasticIsotropic.get_Lame_parameters
Base_get_Lame_parameters(E, nu) ==
    << Div(Div(Mul(E, nu), Add(I(1), nu)), Sub(I(1), Mul(I(2), nu))),
       Div(Div(E, I(2)), Add(I(1), nu)) >>

\* PlaneStressLinearElasticIsotropic.get_Lame_parameters
PlaneStress_get_Lame_parameters(E, nu) ==
    LET lmbda_ == Div(Div(Mul(E, nu), Add(I(1), nu)), Sub(I(1), Mul(I(2), nu)))
        mu == Div(Div(E, I(2)), Add(I(1), nu))
    IN  << Div(Mul(Mul(I(2), mu), lmbda_), Add(lmbda_, Mul(I(2), mu))), mu >>

\* self.get_Lame_parameters(E, nu): the method of self's class
get_Lame_parameters(self, E, nu) ==
    IF self.cls = PlaneStress THEN PlaneStress_get_Lame_parameters(E, nu)
    ELSE Base_get_Lame_parameters(E, nu)

compute_C(self, E, nu) ==
    LET lm == get_Lame_parameters(self, E, nu)
        lmbda == lm[1]
        mu == lm[2]
        kappa == Add(lmbda, Mul(Div(I(2), I(3)), mu))
    IN  MatAdd(Scale(Mul(I(3), kappa), J), Scale(Mul(I(2), mu), K))

\* idx = [0, 1, 3] of the source, 1-based
get_C_plane(self) ==
    LET idx == <<1, 2, 4>>
    IN  [i \in 1..3 |-> [j \in 1..3 |-> self.C[idx[i]][idx[j]]]]

\* compute_C_plane_stress with the shear entry E / (1 + nu), twice the modulus
compute_C_plane_stress_shear(self) ==
    LET E == self.E
        nu == self.nu
        factor == Div(E, Sub(I(1), Mul(nu, nu)))
        C12 == Mul(factor, nu)
        C33 == Div(E, Add(I(1), nu))
    IN  << <<factor, C12, I(0)>>, <<C12, factor, I(0)>>, <<I(0), I(0), C33>> >>

compute_C_plane_stress(self) ==
    LET E == self.E
        nu == self.nu
        factor == Div(E, Sub(I(1), Mul(nu, nu)))
        C11 == factor
        C22 == factor
        C12 == Mul(factor, nu)
        C33 == Div(E, Mul(I(2), Add(I(1), nu)))
    IN  << <<C11, C12, I(0)>>, <<C12, C22, I(0)>>, <<I(0), I(0), C33>> >>

\* the branches with a complete (E, nu) refused when kappa or mu comes too
Branch_exclusive(E, nu, kappa, mu) ==
    IF E # None /\ nu # None
    THEN IF kappa = None /\ mu = None THEN "E_nu" ELSE "ValueError"
    ELSE IF kappa # None /\ mu # None THEN "kappa_mu"
    ELSE "ValueError"

\* the branch __init__ takes: the if, the elif, or the else that raises
Branch(E, nu, kappa, mu) ==
    IF E # None /\ nu # None THEN "E_nu"
    ELSE IF kappa # None /\ mu # None THEN "kappa_mu"
    ELSE "ValueError"

\* the moduli __init__ stores, <<E, nu, kappa, mu>>: given (E, nu) ...
From_E_nu(E, nu) ==
    << E, nu,
       Div(E, Mul(I(3), Sub(I(1), Mul(I(2), nu)))),
       Div(E, Mul(I(2), Add(I(1), nu))) >>

\* (kappa, mu) -> (E, nu) with the factor 2 of nu's denominator dropped
From_kappa_mu_nofactor(kappa, mu) ==
    << Div(Mul(Mul(I(9), kappa), mu), Add(Mul(I(3), kappa), mu)),
       Div(Sub(Mul(I(3), kappa), Mul(I(2), mu)), Add(Mul(I(3), kappa), mu)),
       kappa, mu >>

\* ... and given (kappa, mu)
From_kappa_mu(kappa, mu) ==
    << Div(Mul(Mul(I(9), kappa), mu), Add(Mul(I(3), kappa), mu)),
       Div(Sub(Mul(I(3), kappa), Mul(I(2), mu)),
           Mul(I(2), Add(Mul(I(3), kappa), mu))),
       kappa, mu >>

\* self.C taken from self.compute_C(E, nu), the overridable method
Init_C_compute_C(self) == compute_C(self, self.E, self.nu)

\* self.C and self.S as __init__ sets them, self holding the four moduli
Init_C(self) ==
    MatAdd(Scale(Mul(I(3), self.kappa), J), Scale(Mul(I(2), self.mu), K))

Init_S(self) ==
    MatAdd(Scale(Div(I(1), Mul(I(3), self.kappa)), J),
           Scale(Div(I(1), Mul(I(2), self.mu)), K))

\* __init__: the exception it raises ("none" when it returns) and the
\* instance of class cls with the attributes it has set by then
New(cls, E, nu, kappa, mu) ==
    LET b == Branch(E, nu, kappa, mu)
        m == IF b = "E_nu" THEN From_E_nu(E, nu) ELSE From_kappa_mu(kappa, mu)
        o == [cls |-> cls, E |-> m[1], nu |-> m[2], kappa |-> m[3], mu |-> m[4]]
        C == Init_C(o)
        S == Init_S(o)
    IN  IF b = "ValueError"
        THEN [exc |-> "ValueError", obj |-> [cls |-> cls]]
        ELSE IF \E i \in 1..4 : Raised(m[i])
        THEN [exc |-> "ZeroDivisionError", obj |-> [cls |-> cls]]
        ELSE IF MatRaised(S)
        THEN [exc |-> "ZeroDivisionError",
              obj |-> [cls |-> cls, E |-> m[1], nu |-> m[2], kappa |-> m[3],
                       mu |-> m[4], C |-> C]]
        ELSE [exc |-> "none",
              obj |-> [cls |-> cls, E |-> m[1], nu |-> m[2], kappa |-> m[3],
                       mu |-> m[4], C |-> C, S |-> S]]

\* state[key] = value on a dict
SetItem(d, key, value) ==
    [k \in DOMAIN d \cup {key} |-> IF k = key THEN value ELSE d[k]]

\* constitutive_update returning the stress as a result of its own
constitutive_update_three(self, eps, state, dt, h) ==
    LET sig == dot(self.C, eps)
    IN  [heap |-> [h EXCEPT ![state] = SetItem(h[state], "Stress", sig)],
         eps |-> eps,
         self |-> self,
         ret |-> <<self.C, sig, state>>]

\* constitutive_update returning the compliance self.S for the tangent
constitutive_update_compliance(self, eps, state, dt, h) ==
    LET sig == dot(self.C, eps)
    IN  [heap |-> [h EXCEPT ![state] = SetItem(h[state], "Stress", sig)],
         eps |-> eps,
         self |-> self,
         ret |-> <<self.S, state>>]

\* constitutive_update adding the stress increment to the stress stored
constitutive_update_incremental(self, eps, state, dt, h) ==
    LET old == IF "Stress" \in DOMAIN h[state] THEN h[state]["Stress"]
               ELSE [i \in Idx |-> I(0)]
        inc == dot(self.C, eps)
        sig == [i \in Idx |-> Add(old[i], inc[i])]
    IN  [heap |-> [h EXCEPT ![state] = SetItem(h[state], "Stress", sig)],
         eps |-> eps,
         self |-> self,
         ret |-> <<self.C, state>>]

\* constitutive_update storing the strain in the state as well
constitutive_update_strain(self, eps, state, dt, h) ==
    LET sig == dot(self.C, eps)
    IN  [heap |-> [h EXCEPT ![state] =
                     SetItem(SetItem(h[state], "Strain", eps), "Stress", sig)],
         eps |-> eps,
         self |-> self,
         ret |-> <<self.C, state>>]

\* constitutive_update on the state dict that reference `state` names in
\* heap h: the heap, the strain array and the instance after the call, and
\* the value returned
constitutive_update(self, eps, state, dt, h) ==
    LET sig == dot(self.C, eps)
    IN  [heap |-> [h EXCEPT ![state] = SetItem(h[state], "Stress", sig)],
         eps |-> eps,
         self |-> self,
         ret |-> <<self.C, state>>]

\* ------------------------------------------------------------------ state
VARIABLES
    self,     \* the instance __init__ last ran on: attribute name -> value
    heap,     \* the caller's state dicts: reference -> (key -> array)
    applied,  \* reference -> the strain of the last update of that dict
    call,     \* the last call: method, arguments as they are after it
    ret,      \* the value the last call returned (None when it raised)
    exc       \* the exception the last call raised, or "none"

vars == <<self, heap, applied, call, ret, exc>>

\* ----------------------------------------------------------------- inputs
EVals == {None} \cup {I(n) : n \in 0..MaxModulus}
NuVals == {None, I(-1), R(1, 4), R(1, 2), I(1)}
KappaVals == {None} \cup {I(n) : n \in -1..MaxModulus}
MuVals == {None} \cup {I(n) : n \in 0..(MaxModulus + 2)}

Vec(a, b) == [i \in Idx |-> IF i = 1 THEN a ELSE IF i = 4 THEN b ELSE I(0)]
\* the strains handed to constitutive_update, in Mandel notation
Strains == {Vec(I(1), R(-1, 2)), <<R(1, 2), I(-1), I(2), I(0), I(0), I(1)>>}
DtVals == {I(0), R(1, 2)}
Refs == {1, 2}

NoInstance == [a \in {} |-> None]
Ready == DOMAIN self = Attrs

\* what the caller's dicts hold before any update: an empty dict, and one
\* with a strain entry and a stale stress
Stale == [i \in Idx |-> I(7)]
InitHeap ==
    [r \in Refs |-> IF r = 1 THEN [k \in {} |-> Stale]
                    ELSE [Strain |-> Vec(I(1), I(1)), Stress |-> Stale]]

Init ==
    /\ self = NoInstance
    /\ heap = InitHeap
    /\ applied = [r \in Refs |-> None]
    /\ call = [method |-> "none", args |-> <<>>]
    /\ ret = None
    /\ exc = "none"

\* ---------------------------------------------------------------- actions
\* obj = cls(E, nu, kappa, mu)
__init__ ==
    /\ call.method = "none"
    /\ \E cls \in Classes, E \in EVals, nu \in NuVals,
          kappa \in KappaVals, mu \in MuVals :
         LET r == New(cls, E, nu, kappa, mu)
         IN  /\ self' = r.obj
             /\ exc' = r.exc
             /\ call' = [method |-> "__init__", args |-> <<E, nu, kappa, mu>>]
             /\ ret' = None
    /\ UNCHANGED <<heap, applied>>

\* self.constitutive_update(eps, state, dt)
Call_constitutive_update ==
    /\ Ready
    /\ \E eps \in Strains, state \in Refs, dt \in DtVals :
         LET r == constitutive_update(self, eps, state, dt, heap)
         IN  /\ heap' = r.heap
             /\ self' = r.self
             /\ ret' = r.ret
             /\ call' = [method |-> "constitutive_update",
                         args |-> <<r.eps, state, dt>>]
             /\ applied' = [applied EXCEPT ![state] = eps]
             /\ exc' = "none"

\* a method that only computes: its result, or the ZeroDivisionError it raised
Returns(method, args, value, raised) ==
    /\ call' = [method |-> method, args |-> args]
    /\ ret' = IF raised THEN None ELSE value
    /\ exc' = IF raised THEN "ZeroDivisionError" ELSE "none"
    /\ UNCHANGED <<self, heap, applied>>

Call_get_Lame_parameters ==
    /\ Ready
    /\ \E E \in EVals \ {None}, nu \in NuVals \ {None} :
         LET v == get_Lame_parameters(self, E, nu)
         IN  Returns("get_Lame_parameters", <<E, nu>>, v,
                     Raised(v[1]) \/ Raised(v[2]))

Call_compute_C ==
    /\ Ready
    /\ \E E \in EVals \ {None}, nu \in NuVals \ {None} :
         LET v == compute_C(self, E, nu)
         IN  Returns("compute_C", <<E, nu>>, v, MatRaised(v))

Call_get_C_plane ==
    /\ Ready
    /\ Returns("get_C_plane", <<>>, get_C_plane(self), FALSE)

Call_compute_C_plane_stress ==
    /\ Ready
    /\ LET v == compute_C_plane_stress(self)
       IN  Returns("compute_C_plane_stress", <<>>, v, MatRaised(v))

Next ==
    \/ __init__
    \/ Call_constitutive_update
    \/ Call_get_Lame_parameters
    \/ Call_compute_C
    \/ Call_get_C_plane
    \/ Call_compute_C_plane_stress

Spec == Init /\ [][Next]_vars

\* ----------------------------------------------------------------- claims
VecSub(u, v) == [i \in DOMAIN u |-> Sub(u[i], v[i])]
Updated == call.method = "constitutive_update"
Constructed == call.method = "__init__"

\* C1 (as stated): constitutive_update returns three results, the tangent
\* operator, the stress and the updated state.
C1_ReturnsThreeResults ==
    Updated =>
        /\ Len(ret) = 3
        /\ ret[1] = self.C
        /\ ret[2] = dot(self.C, call.args[1])
        /\ ret[3] = call.args[2]

\* C1 (amended): constitutive_update returns two results, the tangent
\* operator and the state it was given; the stress is not returned on its
\* own but stored under "Stress" in that state.
C1_ReturnsTangentAndState ==
    Updated =>
        /\ Len(ret) = 2
        /\ ret[1] = self.C
        /\ ret[2] = call.args[2]
        /\ heap[ret[2]]["Stress"] = dot(self.C, call.args[1])

C1_Witness ==
    /\ Updated
    /\ Len(ret) = 2
    /\ heap[ret[2]]["Stress"] # Stale

\* C2: the tangent returned by constitutive_update is the derivative of the
\* stored stress with respect to the strain: the stresses two updates (with
\* strains eps and eps + d, any states, any dt) store differ by T.d, T being
\* the tangent the last update returned.
C2_TangentIsDerivative ==
    (Updated /\ \A r \in Refs : applied[r] # None) =>
        \A r1, r2 \in Refs :
            VecSub(heap[r2]["Stress"], heap[r1]["Stress"])
                = dot(ret[1], VecSub(applied[r2], applied[r1]))

C2_Witness ==
    /\ Updated
    /\ applied[1] # None /\ applied[2] # None
    /\ applied[1] # applied[2]
    /\ heap[1]["Stress"] # heap[2]["Stress"]

\* C3: __init__ raises ValueError, leaving none of E, nu, kappa, mu, C, S
\* set, exactly when neither (E, nu) nor (kappa, mu) is given in full; with
\* a complete pair it does not raise ValueError.
C3_ValueErrorIffNoCompletePair ==
    Constructed =>
        LET E == call.args[1]
            nu == call.args[2]
            kappa == call.args[3]
            mu == call.args[4]
            complete == \/ (E # None /\ nu # None)
                        \/ (kappa # None /\ mu # None)
        IN  /\ ~complete => /\ exc = "ValueError"
                            /\ DOMAIN self \cap (Attrs \ {"cls"}) = {}
            /\ complete => exc # "ValueError"

\* a mixed pair (E, mu) was given and ValueError raised
C3_Witness ==
    /\ Constructed
    /\ call.args[1] # None /\ call.args[4] # None
    /\ call.args[2] = None /\ call.args[3] = None
    /\ exc = "ValueError"

\* C4: after any sequence of updates, with any dt and whatever the state
\* dict held before, state["Stress"] is C.eps_n for the last strain eps_n
\* applied to it, C = 3 kappa J + 2 mu K being the stiffness of the instance.
C4_StressIsStiffnessTimesLastStrain ==
    \A r \in Refs :
        applied[r] # None =>
            heap[r]["Stress"]
                = dot(MatAdd(Scale(Mul(I(3), self.kappa), J),
                             Scale(Mul(I(2), self.mu), K)),
                      applied[r])

\* the dict that held a stale stress was updated, after the other one
C4_Witness ==
    /\ Updated
    /\ call.args[2] = 2
    /\ applied[1] # None
    /\ applied[1] # applied[2]
    /\ heap[2]["Stress"] # Stale

NonZero(x) == x # None /\ ~Raised(x) /\ x[1] # 0

\* C5: after a successful construction the four moduli are set and satisfy
\* kappa = E / (3 (1 - 2 nu)) and mu = E / (2 (1 + nu)); given (kappa, mu)
\* with kappa # 0, mu # 0 and 3 kappa + mu # 0 (and no complete (E, nu)),
\* construction succeeds and converting the stored (E, nu) back returns
\* exactly the (kappa, mu) given.
C5_ModuliConsistent ==
    /\ Ready =>
        /\ \A a \in {"E", "nu", "kappa", "mu"} :
               self[a] # None /\ ~Raised(self[a])
        /\ self.kappa
             = Div(self.E, Mul(I(3), Sub(I(1), Mul(I(2), self.nu))))
        /\ self.mu = Div(self.E, Mul(I(2), Add(I(1), self.nu)))
    /\ (/\ Constructed
        /\ call.args[1] = None \/ call.args[2] = None
        /\ NonZero(call.args[3]) /\ NonZero(call.args[4])
        /\ NonZero(Add(Mul(I(3), call.args[3]), call.args[4]))) =>
        /\ Ready
        /\ exc = "none"
        /\ Div(self.E, Mul(I(3), Sub(I(1), Mul(I(2), self.nu))))
             = call.args[3]
        /\ Div(self.E, Mul(I(2), Add(I(1), self.nu))) = call.args[4]

\* an instance built from (kappa, mu) alone
C5_Witness ==
    /\ Constructed /\ Ready
    /\ call.args[1] = None /\ call.args[2] = None
    /\ self.kappa = call.args[3] /\ self.mu = call.args[4]
    /\ self.E # self.kappa

\* C6: compute_C_plane_stress returns the plane-stress stiffness: for every
\* stored (E, nu) with nu outside {-1, 1/2, 1} the result is the symmetric
\* matrix [[l + 2m, l, 0], [l, l + 2m, 0], [0, 0, m]], (l, m) being
\* PlaneStressLinearElasticIsotropic.get_Lame_parameters(E, nu), that is
\* l = E nu / (1 - nu^2) and m = E / (2 (1 + nu)).
C6_PlaneStressStiffness ==
    (/\ call.method = "compute_C_plane_stress"
     /\ self.nu \notin {I(-1), R(1, 2), I(1)}) =>
        LET lm == PlaneStress_get_Lame_parameters(self.E, self.nu)
            l == lm[1]
            m == lm[2]
            l2m == Add(l, Mul(I(2), m))
        IN  /\ exc = "none"
            /\ ~Raised(l) /\ ~Raised(m)
            /\ l = Div(Mul(self.E, self.nu), Sub(I(1), Mul(self.nu, self.nu)))
            /\ m = Div(self.E, Mul(I(2), Add(I(1), self.nu)))
            /\ ret = << <<l2m, l, I(0)>>, <<l, l2m, I(0)>>, <<I(0), I(0), m>> >>
            /\ \A i, j \in 1..3 : ret[i][j] = ret[j][i]

C6_Witness ==
    /\ call.method = "compute_C_plane_stress"
    /\ self.nu \notin {I(-1), R(1, 2), I(1)}
    /\ exc = "none"
    /\ ret[1][2] # I(0)

\* the instance as one of the base class
AsBase(obj) == [a \in DOMAIN obj |-> IF a = "cls" THEN Base ELSE obj[a]]

\* C7: the plane-stress class differs from the base class only in
\* get_Lame_parameters, which returns (2 mu l / (l + 2 mu), mu) for the base
\* class's (l, mu), and hence in compute_C: what __init__ stores and raises,
\* and what constitutive_update, get_C_plane and compute_C_plane_stress
\* return and store, are what the base class gives for the same arguments;
\* constitutive_update uses the stiffness 3 kappa J + 2 mu K.
C7_PlaneStressOnlyChangesLame ==
    /\ (call.method = "get_Lame_parameters" /\ self.cls = PlaneStress) =>
        LET b == Base_get_Lame_parameters(call.args[1], call.args[2])
            l == Div(Mul(Mul(I(2), b[2]), b[1]), Add(b[1], Mul(I(2), b[2])))
        IN  IF Raised(l) \/ Raised(b[2])
            THEN exc = "ZeroDivisionError"
            ELSE exc = "none" /\ ret = <<l, b[2]>>
    /\ Constructed =>
        LET b == New(Base, call.args[1], call.args[2], call.args[3],
                     call.args[4])
        IN  /\ exc = b.exc
            /\ AsBase(self) = b.obj
    /\ Ready =>
        self.C = MatAdd(Scale(Mul(I(3), self.kappa), J),
                        Scale(Mul(I(2), self.mu), K))
    /\ Updated =>
        LET b == constitutive_update(AsBase(self), call.args[1],
                                     call.args[2], call.args[3], heap)
        IN  /\ ret = b.ret
            /\ heap = b.heap
            /\ ret[1] = MatAdd(Scale(Mul(I(3), self.kappa), J),
                               Scale(Mul(I(2), self.mu), K))
    /\ (call.method = "get_C_plane" /\ exc = "none") =>
        ret = get_C_plane(AsBase(self))
    /\ (call.method = "compute_C_plane_stress" /\ exc = "none") =>
        ret = compute_C_plane_stress(AsBase(self))

\* a plane-stress instance was updated, and its compute_C(E, nu) is not the
\* stiffness the update used
C7_Witness ==
    /\ Updated
    /\ self.cls = PlaneStress
    /\ ~MatRaised(compute_C(self, self.E, self.nu))
    /\ compute_C(self, self.E, self.nu) # ret[1]
    /\ compute_C(AsBase(self), self.E, self.nu) = ret[1]

\* C8: a constitutive_update changes nothing but the "Stress" entry of the
\* state dict it is given, which it updates in place and returns: the other
\* dicts and the dict's other entries keep their values, the strain passed
\* is the strain after the call, and the instance's attributes are unchanged.
C8_UpdateFrame ==
    [][call'.method = "constitutive_update" =>
        LET state == call'.args[2]
        IN  /\ ret'[2] = state
            /\ \A r \in Refs \ {state} : heap'[r] = heap[r]
            /\ DOMAIN heap'[state] = DOMAIN heap[state] \cup {"Stress"}
            /\ \A k \in DOMAIN heap[state] \ {"Stress"} :
                   heap'[state][k] = heap[state][k]
            /\ call'.args[1] = applied'[state]
            /\ self' = self]_vars

\* the dict holding a "Strain" entry was updated
C8_Witness ==
    /\ Updated
    /\ call.args[2] = 2
    /\ "Strain" \in DOMAIN heap[2]
    /\ heap[2]["Stress"] # Stale
    /\ heap[1] = InitHeap[1]

====
